---- MODULE Spec2Model ----
(***************************************************************************)
(* Model of main.py: enumeration of non-standard dice (die_generator),     *)
(* pairwise comparison (is_best), the win/lose graph built by main, and    *)
(* its reduction to a fixed point (clean).                                 *)
(*                                                                         *)
(* A die is a sequence of naturals.  The graph is a function from dice to  *)
(* pairs <<w, l>> of sequences of dice (the Python tuple of two lists).    *)
(* The model calls one of the four callables of the file: main (with the   *)
(* three defaults as the configuration), die_generator, is_best, clean.    *)
(***************************************************************************)
EXTENDS Naturals, Integers, Sequences, FiniteSets

VARIABLES
    call,       \* the callable that was invoked
    pc,         \* position inside it
    cfg,        \* <<min_value, max_value, sides>>
    i,          \* main: position of the outer generator (index of `this`)
    j,          \* main: position of the inner generator (index of `oponent`)
    graph,      \* main/clean: die -> <<win list, lose list>>
    graph0,     \* the graph as it was handed to clean
    printed,    \* main: the lines printed so far
    out,        \* die_generator: the tuples yielded so far by this invocation
    prev,       \* die_generator: the full sequence of the previous invocation
    run,        \* die_generator: number of the invocation (1 or 2)
    this,       \* is_best: first argument
    oponent,    \* is_best: second argument
    ret         \* is_best: returned value (FALSE before the return)

vars == <<call, pc, cfg, i, j, graph, graph0, printed, out, prev, run,
          this, oponent, ret>>

----------------------------------------------------------------------------
(* Bounds of the model *)

\* largest max_value of a checked configuration
MaxValue == 3
\* largest number of sides of a checked configuration
MaxSides == 4
\* main is run on the configurations that generate at most this many dice
MaxDice == 35
\* is_best is called on dice of 1..MaxLen faces with values 0..MaxFace
MaxLen == 3
MaxFace == 2
\* clean is called on graphs over MaxNodes dice with at most MaxEdges edges
MaxNodes == 4
MaxEdges == 5

(* Defaults of the program *)
MIN_VALUE == 0
MAX_VALUE == 4
SIDES == 4

----------------------------------------------------------------------------
(* die_generator *)

RECURSIVE die_generator(_, _, _), ForFirstSide(_, _, _)

\* (first_side,) + die for die in gen
PrependEach(first_side, gen) ==
    [k \in 1..Len(gen) |-> <<first_side>> \o gen[k]]

\* the iterations first_side, first_side + 1, ..., max_value of the for loop
ForFirstSide(first_side, max_value, sides) ==
    IF first_side > max_value THEN <<>>
    ELSE (IF sides = 1
          THEN << <<first_side>> >>
          ELSE PrependEach(first_side, die_generator(0, first_side, sides - 1)))
         \o ForFirstSide(first_side + 1, max_value, sides)

\* mutant: range(min_value, max_value), the last first_side left out
die_generator_short(min_value, max_value, sides) ==
    ForFirstSide(min_value, max_value - 1, sides)

\* the sequence of tuples the generator yields, in order
die_generator(min_value, max_value, sides) ==
    ForFirstSide(min_value, max_value, sides)

----------------------------------------------------------------------------
(* is_best *)

RECURSIVE Greater(_, _, _)
\* sum(1 for side2 in oponent if side1 > side2), from index k on
Greater(side1, oponent_, k) ==
    IF k > Len(oponent_) THEN 0
    ELSE (IF side1 > oponent_[k] THEN 1 ELSE 0) + Greater(side1, oponent_, k + 1)

RECURSIVE Equal(_, _, _)
\* sum(1 for side2 in oponent if side1 == side2), from index k on
Equal(side1, oponent_, k) ==
    IF k > Len(oponent_) THEN 0
    ELSE (IF side1 = oponent_[k] THEN 1 ELSE 0) + Equal(side1, oponent_, k + 1)

RECURSIVE CountFrom(_, _, _)
\* count after the iterations k.. of `for side1 in this`
CountFrom(this_, oponent_, k) ==
    IF k > Len(this_) THEN 0
    ELSE Greater(this_[k], oponent_, 1) + CountFrom(this_, oponent_, k + 1)

RECURSIVE TiesFrom(_, _, _)
\* ties after the iterations k.. of `for side1 in this`
TiesFrom(this_, oponent_, k) ==
    IF k > Len(this_) THEN 0
    ELSE Equal(this_[k], oponent_, 1) + TiesFrom(this_, oponent_, k + 1)

\* mutant: the ties are not taken off the oponent's wins
is_best_noties(this_, oponent_) ==
    LET total == Len(this_) * Len(oponent_)
        count == CountFrom(this_, oponent_, 1)
    IN  count > total - count

\* mutant: >= in place of >
is_best_ge(this_, oponent_) ==
    LET total == Len(this_) * Len(oponent_)
        count == CountFrom(this_, oponent_, 1)
        ties  == TiesFrom(this_, oponent_, 1)
    IN  count >= total - ties - count

is_best(this_, oponent_) ==
    LET total == Len(this_) * Len(oponent_)
        count == CountFrom(this_, oponent_, 1)
        ties  == TiesFrom(this_, oponent_, 1)
    IN  count > total - ties - count

----------------------------------------------------------------------------
(* the graph *)

\* defaultdict(lambda: ([], [])) with no key yet
EmptyGraph == [d \in {} |-> << <<>>, <<>> >>]

\* graph[die], creating the entry ([], []) when die is no key yet
Touch(g, die) ==
    IF die \in DOMAIN g THEN g
    ELSE [d \in DOMAIN g \cup {die} |->
             IF d = die THEN << <<>>, <<>> >> ELSE g[d]]

\* graph[a][0].append(b)
AppendWin(g, a, b) ==
    LET g1 == Touch(g, a)
    IN  [g1 EXCEPT ![a] = <<Append(g1[a][1], b), g1[a][2]>>]

\* mutant: graph[b][0].append(a), the win list in place of the lose list
AppendLose_index0(g, b, a) ==
    LET g1 == Touch(g, b)
    IN  [g1 EXCEPT ![b] = <<Append(g1[b][1], a), g1[b][2]>>]

\* graph[b][1].append(a)
AppendLose(g, b, a) ==
    LET g1 == Touch(g, b)
    IN  [g1 EXCEPT ![b] = <<g1[b][1], Append(g1[b][2], a)>>]

\* the body of the two loops of main for one ordered pair
Record(g, a, b) ==
    IF is_best(a, b) THEN AppendLose(AppendWin(g, a, b), b, a) ELSE g

----------------------------------------------------------------------------
(* clean *)

\* mutant: `and` in place of `or`
to_delete_and(g) ==
    {die \in DOMAIN g : Len(g[die][1]) = 0 /\ Len(g[die][2]) = 0}

\* mutant: the test of the lose list left out
to_delete_w(g) ==
    {die \in DOMAIN g : Len(g[die][1]) = 0}

\* [die for die, (w, l) in graph.items() if len(w) == 0 or len(l) == 0]
to_delete(g) ==
    {die \in DOMAIN g : Len(g[die][1]) = 0 \/ Len(g[die][2]) = 0}

\* mutant: the del loop left out
DeleteKeys_none(g, td) == g

\* for die in to_delete: del graph[die]
DeleteKeys(g, td) ==
    [d \in DOMAIN g \ td |-> g[d]]

RECURSIVE RemoveEach(_, _)
\* for die in to_delete: if die in s: s.remove(die)
\* list.remove drops the first occurrence only; the removals of different
\* dice commute, so one walk of s dropping the first occurrence of each die
\* of td gives the list the nested loops leave.
RemoveEach(s, td) ==
    IF s = <<>> THEN <<>>
    ELSE IF Head(s) \in td
         THEN RemoveEach(Tail(s), td \ {Head(s)})
         ELSE <<Head(s)>> \o RemoveEach(Tail(s), td)

\* mutant: the dice are removed from the win lists only
RemoveRefs_w(g, td) ==
    [d \in DOMAIN g |-> <<RemoveEach(g[d][1], td), g[d][2]>>]

\* mutant: the references to the deleted dice are left in place
RemoveRefs_none(g, td) == g

\* for (w, l) in graph.values(): ... remove the deleted dice from w and l
RemoveRefs(g, td) ==
    [d \in DOMAIN g |-> <<RemoveEach(g[d][1], td), RemoveEach(g[d][2], td)>>]

\* one pass of the while loop that found something to delete
CleanPassOf(g) ==
    LET td == to_delete(g)
    IN  RemoveRefs(DeleteKeys(g, td), td)

RECURSIVE clean(_)
\* the whole of clean: passes until to_delete is empty
clean(g) == IF to_delete(g) = {} THEN g ELSE clean(CleanPassOf(g))

----------------------------------------------------------------------------
(* the reporter *)

Digit == <<"0", "1", "2", "3", "4", "5", "6", "7", "8", "9">>

RECURSIVE Str(_)
\* str(n)
Str(n) == IF n < 10 THEN Digit[n + 1] ELSE Str(n \div 10) \o Digit[(n % 10) + 1]

RECURSIVE Name(_)
\* "".join(map(str, die))
Name(die) == IF die = <<>> THEN "" ELSE Str(Head(die)) \o Name(Tail(die))

RECURSIVE TupleLess(_, _)
\* Python's order of tuples: a < b
TupleLess(a, b) ==
    IF b = <<>> THEN FALSE
    ELSE IF a = <<>> THEN TRUE
    ELSE IF Head(a) # Head(b) THEN Head(a) < Head(b)
    ELSE TupleLess(Tail(a), Tail(b))

RECURSIVE Sorted(_)
\* sorted(S) for a collection of distinct tuples
Sorted(S) ==
    IF S = {} THEN <<>>
    ELSE LET m == CHOOSE x \in S : \A y \in S \ {x} : TupleLess(x, y)
         IN  <<m>> \o Sorted(S \ {m})

Range(s) == {s[k] : k \in 1..Len(s)}

RECURSIVE LinesOf(_, _, _)
\* the lines of one die: a line per element of sorted(w)
LinesOf(name, ws, k) ==
    IF k > Len(ws) THEN <<>>
    ELSE <<name \o " > " \o Name(ws[k])>> \o LinesOf(name, ws, k + 1)

RECURSIVE Report(_, _, _)
\* for this in sorted(graph): for oponent in sorted(w): print(...)
Report(g, keys, k) ==
    IF k > Len(keys) THEN <<>>
    ELSE LinesOf(Name(keys[k]), Sorted(Range(g[keys[k]][1])), 1)
         \o Report(g, keys, k + 1)

----------------------------------------------------------------------------
(* main *)

Dice(c) == die_generator(c[1], c[2], c[3])

Configs ==
    {c \in (0..MaxValue) \X (0..MaxValue) \X (1..MaxSides) : c[1] <= c[2]}

MainConfigs == {c \in Configs : Len(Dice(c)) <= MaxDice}

DefaultConfig == <<MIN_VALUE, MAX_VALUE, SIDES>>

InitMainOn(cs) ==
    /\ call = "main" /\ pc = "build"
    /\ cfg \in cs
    /\ i = 1 /\ j = 1
    /\ graph = EmptyGraph /\ graph0 = EmptyGraph
    /\ printed = <<>>
    /\ out = <<>> /\ prev = <<>> /\ run = 0
    /\ this = <<>> /\ oponent = <<>> /\ ret = FALSE

\* one iteration of the inner loop of main, for the pair (dice[i], dice[j]);
\* after the last pair main calls clean(graph)
BuildStep ==
    /\ call = "main" /\ pc = "build"
    /\ LET dice == Dice(cfg)
           g    == Record(graph, dice[i], dice[j])
           last == i = Len(dice) /\ j = Len(dice)
       IN  /\ graph' = g
           /\ IF j < Len(dice) THEN i' = i /\ j' = j + 1
              ELSE IF i < Len(dice) THEN i' = i + 1 /\ j' = 1
              ELSE i' = i /\ j' = j
           /\ pc' = IF last THEN "clean" ELSE "build"
           /\ graph0' = IF last THEN g ELSE graph0
    /\ UNCHANGED <<call, cfg, printed, out, prev, run, this, oponent, ret>>

\* a pass of clean's loop with a non-empty to_delete
CleanPass ==
    /\ pc = "clean"
    /\ to_delete(graph) # {}
    /\ graph' = CleanPassOf(graph)
    /\ UNCHANGED <<call, pc, cfg, i, j, graph0, printed, out, prev, run,
                   this, oponent, ret>>

\* the pass with an empty to_delete: break, and clean returns
CleanReturn ==
    /\ pc = "clean"
    /\ to_delete(graph) = {}
    /\ pc' = IF call = "main" THEN "report" ELSE "done"
    /\ UNCHANGED <<call, cfg, i, j, graph, graph0, printed, out, prev, run,
                   this, oponent, ret>>

\* the printing loops of main
PrintAll ==
    /\ call = "main" /\ pc = "report"
    /\ printed' = Report(graph, Sorted(DOMAIN graph), 1)
    /\ pc' = "done"
    /\ UNCHANGED <<call, cfg, i, j, graph, graph0, out, prev, run,
                   this, oponent, ret>>

NextMain == BuildStep \/ CleanPass \/ CleanReturn \/ PrintAll

InitMain == InitMainOn(MainConfigs)
SpecMain == InitMain /\ [][NextMain]_vars

InitDefault == InitMainOn({DefaultConfig})
SpecDefault == InitDefault /\ [][NextMain]_vars

----------------------------------------------------------------------------
(* die_generator called on its own, twice with the same arguments *)

InitGen ==
    /\ call = "die_generator" /\ pc = "gen"
    /\ cfg \in Configs
    /\ run = 1 /\ out = <<>> /\ prev = <<>>
    /\ i = 0 /\ j = 0
    /\ graph = EmptyGraph /\ graph0 = EmptyGraph
    /\ printed = <<>>
    /\ this = <<>> /\ oponent = <<>> /\ ret = FALSE

\* the consumer takes the next tuple the generator yields
GenYield ==
    /\ call = "die_generator" /\ pc = "gen"
    /\ Len(out) < Len(Dice(cfg))
    /\ out' = Append(out, Dice(cfg)[Len(out) + 1])
    /\ UNCHANGED <<call, pc, cfg, i, j, graph, graph0, printed, prev, run,
                   this, oponent, ret>>

\* the first invocation is exhausted; die_generator is invoked again
GenRestart ==
    /\ call = "die_generator" /\ pc = "gen"
    /\ Len(out) = Len(Dice(cfg))
    /\ run = 1
    /\ run' = 2 /\ prev' = out /\ out' = <<>>
    /\ UNCHANGED <<call, pc, cfg, i, j, graph, graph0, printed,
                   this, oponent, ret>>

\* the second invocation is exhausted
GenStop ==
    /\ call = "die_generator" /\ pc = "gen"
    /\ Len(out) = Len(Dice(cfg))
    /\ run = 2
    /\ pc' = "done"
    /\ UNCHANGED <<call, cfg, i, j, graph, graph0, printed, out, prev, run,
                   this, oponent, ret>>

NextGen == GenYield \/ GenRestart \/ GenStop
SpecGen == InitGen /\ [][NextGen]_vars

----------------------------------------------------------------------------
(* is_best called on its own *)

\* sequences of 0..MaxLen faces with values 0..MaxFace, in any order
AnyDice == UNION {[1..n -> 0..MaxFace] : n \in 0..MaxLen}

InitBest ==
    /\ call = "is_best" /\ pc = "call"
    /\ this \in AnyDice /\ oponent \in AnyDice
    /\ ret = FALSE
    /\ cfg = <<0, 0, 0>>
    /\ i = 0 /\ j = 0
    /\ graph = EmptyGraph /\ graph0 = EmptyGraph
    /\ printed = <<>>
    /\ out = <<>> /\ prev = <<>> /\ run = 0

IsBestReturn ==
    /\ call = "is_best" /\ pc = "call"
    /\ ret' = is_best(this, oponent)
    /\ pc' = "done"
    /\ UNCHANGED <<call, cfg, i, j, graph, graph0, printed, out, prev, run,
                   this, oponent>>

----------------------------------------------------------------------------
(* clean called on its own, on a symmetric graph *)

Nodes == {<<k>> : k \in 0..(MaxNodes - 1)}

Pairs == {e \in Nodes \X Nodes : e[1] # e[2]}

EdgeSets == {E \in SUBSET Pairs : Cardinality(E) <= MaxEdges}

Touched(E) == {e[1] : e \in E} \cup {e[2] : e \in E}

\* the graph with keys K and an edge a -> b (a beats b) per <<a, b>> of E
GraphOf(K, E) ==
    [d \in K |-> <<Sorted({e[2] : e \in {x \in E : x[1] = d}}),
                   Sorted({e[1] : e \in {x \in E : x[2] = d}})>>]

InitClean ==
    /\ call = "clean" /\ pc = "clean"
    /\ \E E \in EdgeSets : \E K \in {Touched(E), Nodes} :
          /\ graph = GraphOf(K, E)
          /\ graph0 = GraphOf(K, E)
    /\ cfg = <<0, 0, 0>>
    /\ i = 0 /\ j = 0
    /\ printed = <<>>
    /\ out = <<>> /\ prev = <<>> /\ run = 0
    /\ this = <<>> /\ oponent = <<>> /\ ret = FALSE

NextClean == CleanPass \/ CleanReturn
SpecClean == InitClean /\ [][NextClean]_vars
\* the program is one thread that runs until clean returns
FairSpecClean == SpecClean /\ WF_vars(NextClean)

----------------------------------------------------------------------------
(* any of the four callables *)

Init == InitMain \/ InitGen \/ InitBest \/ InitClean

Next ==
    \/ BuildStep \/ CleanPass \/ CleanReturn \/ PrintAll
    \/ GenYield \/ GenRestart \/ GenStop
    \/ IsBestReturn

Spec == Init /\ [][Next]_vars

----------------------------------------------------------------------------
(* Properties *)

\* clean has returned (inside main, or called on its own)
Returned == call \in {"main", "clean"} /\ pc \in {"report", "done"}

\* the win and lose sets of a die in g, empty for a die that is no key
WinSet(g, d) == IF d \in DOMAIN g THEN Range(g[d][1]) ELSE {}
LoseSet(g, d) == IF d \in DOMAIN g THEN Range(g[d][2]) ELSE {}

\* C1: when clean returns, every die still a key of the graph has a
\* non-empty win list and a non-empty lose list, and clean applied to the
\* returned graph gives the same graph back (checked on the graphs main
\* builds).
C1_CleanedFixedPoint ==
    (call = "main" /\ Returned) =>
        /\ \A d \in DOMAIN graph : graph[d][1] # <<>> /\ graph[d][2] # <<>>
        /\ clean(graph) = graph

\* clean deleted some dice and kept others
C1_Witness ==
    /\ call = "main" /\ pc = "done"
    /\ graph # EmptyGraph
    /\ DOMAIN graph # DOMAIN graph0

\* C2: with the defaults (0, 4, 4), the graph after the build and clean is
\* non-empty and holds three dice A, B, C with A > B, B > C and C > A.
C2_DefaultCycle ==
    (call = "main" /\ cfg = DefaultConfig /\ Returned) =>
        /\ DOMAIN graph # {}
        /\ \E A \in DOMAIN graph : \E B \in WinSet(graph, A) :
              \E C \in WinSet(graph, B) :
                  /\ B \in DOMAIN graph /\ C \in DOMAIN graph
                  /\ A \in WinSet(graph, C)

\* main ran to its end on the defaults and printed lines
C2_Witness ==
    /\ call = "main" /\ cfg = DefaultConfig /\ pc = "done"
    /\ printed # <<>>
    /\ DOMAIN graph # DOMAIN graph0

RECURSIVE Binom(_, _)
\* the binomial coefficient C(n, k)
Binom(n, k) ==
    IF k = 0 THEN 1
    ELSE IF n < k THEN 0
    ELSE Binom(n - 1, k - 1) + Binom(n - 1, k)

NonIncreasing(t) == \A k \in 1..(Len(t) - 1) : t[k] >= t[k + 1]

\* the non-increasing tuples of c[3] faces, each face in c[1]..c[2]
ValidDice(c) == {t \in [1..c[3] -> c[1]..c[2]] : NonIncreasing(t)}

\* C3: every tuple die_generator yields is a non-increasing tuple of
\* `sides` faces, each in [min_value, max_value]; none is yielded twice; and
\* C(max_value - min_value + sides, sides) tuples are yielded in all.
C3_RangeAndCount ==
    call = "die_generator" =>
        /\ \A k \in 1..Len(out) :
              /\ Len(out[k]) = cfg[3]
              /\ NonIncreasing(out[k])
              /\ \A f \in 1..cfg[3] : out[k][f] \in cfg[1]..cfg[2]
        /\ \A k, m \in 1..Len(out) : out[k] = out[m] => k = m
        /\ pc = "done" => Len(out) = Binom(cfg[2] - cfg[1] + cfg[3], cfg[3])

\* C4: every non-increasing tuple of `sides` faces in
\* [min_value, max_value] is yielded exactly once, the sequence ends, and a
\* second invocation with the same arguments yields the same sequence in
\* the same order.
C4_NoValidDieOmitted ==
    (call = "die_generator" /\ pc = "done") =>
        /\ \A t \in ValidDice(cfg) :
              Cardinality({k \in 1..Len(out) : out[k] = t}) = 1
        /\ prev = out

\* both invocations ended, for a min_value above 0 and several sides
C4_Witness ==
    /\ call = "die_generator" /\ pc = "done" /\ run = 2
    /\ cfg[1] > 0 /\ cfg[3] >= 2
    /\ Len(out) >= 2

\* C5: is_best(A, B) and is_best(B, A) are never both true and
\* is_best(A, A) is false, for dice of any lengths and faces; and the graph
\* main builds never has a die in its own win or lose list, nor A in the
\* win list of B together with B in the win list of A.
C5_Asymmetric ==
    /\ (call = "is_best" /\ pc = "done") =>
          /\ ret => ~is_best(oponent, this)
          /\ this = oponent => ~ret
    /\ call = "main" =>
          \A d \in DOMAIN graph :
              /\ d \notin WinSet(graph, d)
              /\ d \notin LoseSet(graph, d)
              /\ \A e \in WinSet(graph, d) : d \notin WinSet(graph, e)

\* is_best returned true for dice of different lengths
C5_Witness ==
    /\ call = "is_best" /\ pc = "done"
    /\ ret
    /\ Len(this) # Len(oponent)

\* C6: clean terminates: a pass that finds a die to delete leaves strictly
\* fewer keys, the pass that finds none ends the loop with the graph as it
\* is, and clean eventually returns.
C6_CleanTerminates ==
    /\ [][(pc = "clean" /\ to_delete(graph) # {}) =>
             /\ pc' = "clean"
             /\ Cardinality(DOMAIN graph') < Cardinality(DOMAIN graph)]_vars
    /\ [][(pc = "clean" /\ to_delete(graph) = {}) =>
             /\ pc' = "done"
             /\ graph' = graph]_vars
    /\ <>(pc = "done")

\* clean returned an empty graph after more than one deleting pass
C6_Witness ==
    /\ call = "clean" /\ pc = "done"
    /\ graph = EmptyGraph
    /\ \E d \in DOMAIN graph0 : d \notin to_delete(graph0)

\* the edges a -> b of g: b is in the win list of a
BeatsOf(g) == UNION {{<<a, b>> : b \in WinSet(g, a)} : a \in DOMAIN g}

RECURSIVE Closure(_, _)
\* the transitive closure of R, adding the paths through the nodes of N
Closure(R, N) ==
    IF N = {} THEN R
    ELSE LET n == CHOOSE x \in N : TRUE
             into == {e[1] : e \in {x \in R : x[2] = n}}
             from == {e[2] : e \in {x \in R : x[1] = n}}
         IN  Closure(R \cup (into \X from), N \ {n})

\* no directed cycle in the beats relation of g
Acyclic(g) ==
    LET tc == Closure(BeatsOf(g), DOMAIN g)
    IN  \A d \in DOMAIN g : <<d, d>> \notin tc

\* C7: when the beats relation main built has no directed cycle, clean
\* empties the graph and nothing is printed; for (0, 1, 2) the dice are
\* (1,1), (1,0), (0,0), the edges are (1,1)>(1,0), (1,1)>(0,0), (1,0)>(0,0)
\* and the graph after clean is empty.
C7_AcyclicEmptied ==
    (call = "main" /\ pc = "done") =>
        /\ Acyclic(graph0) => (graph = EmptyGraph /\ printed = <<>>)
        /\ cfg = <<0, 1, 2>> =>
              /\ Range(Dice(cfg)) = {<<1, 1>>, <<1, 0>>, <<0, 0>>}
              /\ BeatsOf(graph0) = {<<<<1, 1>>, <<1, 0>>>>,
                                     <<<<1, 1>>, <<0, 0>>>>,
                                     <<<<1, 0>>, <<0, 0>>>>}
              /\ graph = EmptyGraph

\* main ended on (0, 1, 2): three edges were built and all were cleaned
C7_Witness ==
    /\ call = "main" /\ pc = "done"
    /\ cfg = <<0, 1, 2>>
    /\ Cardinality(BeatsOf(graph0)) = 3
    /\ graph = EmptyGraph

NoDuplicates(s) == \A k, m \in 1..Len(s) : s[k] = s[m] => k = m

\* C8: at the end of every builder iteration and of every pass of clean,
\* and when clean returns: B is in the win list of A iff A is in the lose
\* list of B, every die in a list is a key, and no list holds a die twice.
C8_Symmetric ==
    call = "main" =>
        \A A \in DOMAIN graph :
            /\ \A B \in WinSet(graph, A) :
                  B \in DOMAIN graph /\ A \in LoseSet(graph, B)
            /\ \A B \in LoseSet(graph, A) :
                  B \in DOMAIN graph /\ A \in WinSet(graph, B)
            /\ NoDuplicates(graph[A][1])
            /\ NoDuplicates(graph[A][2])

\* between two passes of clean, with dice deleted and dice left
C8_Witness ==
    /\ call = "main" /\ pc = "clean"
    /\ DOMAIN graph # DOMAIN graph0
    /\ to_delete(graph) # {}
    /\ to_delete(graph) # DOMAIN graph

\* the number of face pairs (a in A, b in B) with a > b
FaceWins(A, B) ==
    Cardinality({q \in (1..Len(A)) \X (1..Len(B)) : A[q[1]] > B[q[2]]})

\* C9: after the full cross product (before clean), B is in the win list
\* of A iff A is in the lose list of B iff A has more winning face pairs
\* than B; and a die is a key iff it wins or loses against some die.
C9_DecisiveRelations ==
    (call = "main" /\ pc = "clean" /\ graph = graph0) =>
        LET dice == Range(Dice(cfg))
            beats(A, B) == FaceWins(A, B) > FaceWins(B, A)
        IN  /\ \A A \in dice : \A B \in dice :
                  /\ (B \in WinSet(graph, A)) <=> beats(A, B)
                  /\ (A \in LoseSet(graph, B)) <=> beats(A, B)
            /\ DOMAIN graph =
                  {A \in dice : \E B \in dice : beats(A, B) \/ beats(B, A)}

\* the build ended with wins recorded, and with two dice that tie
C9_Witness ==
    /\ call = "main" /\ pc = "clean" /\ graph = graph0
    /\ Cardinality(DOMAIN graph) >= 10
    /\ \E A \in DOMAIN graph : \E B \in DOMAIN graph :
          /\ A # B
          /\ B \notin WinSet(graph, A)
          /\ A \notin WinSet(graph, B)

\* g with its lists read as sets
AsSets(g) == [d \in DOMAIN g |-> <<Range(g[d][1]), Range(g[d][2])>>]

\* g (lists as sets) with the one die d deleted and dropped from every set
DeleteOne(g, d) ==
    [x \in DOMAIN g \ {d} |-> <<g[x][1] \ {d}, g[x][2] \ {d}>>]

RECURSIVE OneAtATime(_)
\* every graph that deleting one qualifying die at a time, in any order,
\* can end in
OneAtATime(g) ==
    LET q == {d \in DOMAIN g : g[d][1] = {} \/ g[d][2] = {}}
    IN  IF q = {} THEN {g}
        ELSE UNION {OneAtATime(DeleteOne(g, d)) : d \in q}

\* C10: on a symmetric graph, clean's batch passes end in the same graph
\* (keys, win sets, lose sets) as deleting the qualifying dice one at a
\* time in any order.
C10_OrderIndependent ==
    (call = "clean" /\ pc = "done") =>
        OneAtATime(AsSets(graph0)) = {AsSets(graph)}

\* clean deleted several dice of one pass and left a non-empty graph
C10_Witness ==
    /\ call = "clean" /\ pc = "done"
    /\ Cardinality(to_delete(graph0)) >= 2
    /\ graph # EmptyGraph

====
